---- MODULE Spec2Model ----
(***************************************************************************)
(* Model of trips/scheduling.py: compute_schedule_for_route, the           *)
(* Hours-of-Service trip schedule generator.                               *)
(*                                                                         *)
(* One call of the function is one behaviour: Init draws the arguments     *)
(* (route_geojson, current_cycle_used_hours) and the value utcnow()        *)
(* returns; every action is one straight-line block of the function or one *)
(* iteration of its while loop.                                            *)
(* RepeatSpec adds a second call on the same arguments, as plan_trip makes *)
(* for a second request, to compare what the two calls return.             *)
(*                                                                         *)
(* Units.  The code computes with floats; the model computes exactly, in   *)
(* integers:                                                               *)
(*   - miles are held in quarter miles (Miles(1) = 4);                     *)
(*   - a segment's "distance" is held in units of 1609.34/4 m, so that     *)
(*     distance / 1609.34 is that many quarter miles;                      *)
(*   - hours are held in ticks of 1/220 h (Hrs(1) = 4 * 55 = 220), so that *)
(*     miles / AVG_SPEED_MPH maps n quarter miles to n ticks, and 30, 45   *)
(*     and 60 minutes are 110, 165 and 220 ticks;                          *)
(*   - datetimes are ticks since an epoch; isoformat() + "Z" is injective  *)
(*     and is modelled by the tick count itself.                           *)
(***************************************************************************)
EXTENDS Integers, Sequences, FiniteSets, TLC

VARIABLES
    features,             \* route_geojson.get("features", []): a sequence of segment lists
    cycle_in,             \* the argument current_cycle_used_hours
    now,                  \* the value datetime.utcnow() returns
    pc,                   \* position in the function body
    segments,             \* props.get("segments", [])
    total_miles,          \* total_meters / 1609.34
    est_seconds,          \* total_seconds (est_drive_hours before the division)
    t,                    \* the simulation clock
    schedule,             \* the list of emitted periods
    miles_driven,
    driving_today,
    on_duty_today,
    driving_since_break,
    cycle_used,
    miles_until_fuel,
    remaining_miles,
    result,               \* the returned dict
    run,                  \* which call of the function this is, 1 or 2
    first_result          \* what the first call returned, once a second call runs

vars == <<features, cycle_in, now, pc, segments, total_miles, est_seconds, t,
          schedule, miles_driven, driving_today, on_duty_today,
          driving_since_break, cycle_used, miles_until_fuel, remaining_miles,
          result, run, first_result>>

----------------------------------------------------------------------------
(* Units *)

AVG_SPEED_MPH == 55

QuartersPerMile == 2 * 2

TicksPerHour == QuartersPerMile * AVG_SPEED_MPH

Miles(m) == QuartersPerMile * m

Hrs(h) == h * TicksPerHour

Mins(m) == (m * TicksPerHour) \div 60

(* miles / AVG_SPEED_MPH, quarter miles to ticks *)
DriveHours(miles) == (miles * TicksPerHour) \div (QuartersPerMile * AVG_SPEED_MPH)

(* distance / 1609.34, distance units to quarter miles *)
MetersToMiles(d) == d

Min2(a, b) == IF a <= b THEN a ELSE b

Min3(a, b, c) == Min2(a, Min2(b, c))

(* round(x, ndigits) / format(x, ".0f") on n/d: round half to even *)
RoundHalfEven(n, d) ==
    LET q == n \div d
        r == n % d
    IN  IF 2 * r < d THEN q
        ELSE IF 2 * r > d THEN q + 1
        ELSE IF q % 2 = 0 THEN q ELSE q + 1

----------------------------------------------------------------------------
(* Constants of scheduling.py *)

FUEL_RANGE_MILES == 1000
FUEL_STOP_MIN == 45
PICKUP_MIN == 60
DROPOFF_MIN == 60
MAX_DRIVE_HRS == 11
MAX_ON_DUTY_HRS == 14
BREAK_AFTER_HRS == 8
OFF_DUTY_RESET_HRS == 10
CYCLE_LIMIT_HRS == 70
RESTART_OFF_DUTY_HRS == 34
PRETRIP_MIN == 30
BREAK_MIN == 30
SLEEPER_MAX_HRS == 7
SPLIT_COMPLETION_HRS == 3
SPLIT_MILES == 50
COMPLETION_MILES == 100

----------------------------------------------------------------------------
(* Inputs *)

MaxSegs == 2

SegChoices ==
    { [distance |-> 0,            duration |-> 0],
      [distance |-> Miles(40),    duration |-> 2628],
      [distance |-> Miles(60),    duration |-> 3942],
      [distance |-> Miles(825) \div 2, duration |-> 27000],
      [distance |-> Miles(665),   duration |-> 43560],
      [distance |-> Miles(770),   duration |-> 50400],
      [distance |-> Miles(1020),  duration |-> 66780],
      [distance |-> Miles(1100),  duration |-> 72018] }

SegLists == UNION { [1..n -> SegChoices] : n \in 0..MaxSegs }

(* no features, or one feature with its segment list *)
FeatureChoices == { <<>> } \cup { <<s>> : s \in SegLists }

CycleChoices == { 0, Hrs(55), (696 * TicksPerHour) \div 10 }

NowChoices == { 0, 7 }

----------------------------------------------------------------------------
(* Helpers *)

RECURSIVE SumDistance(_)
SumDistance(segs) ==
    IF segs = <<>> THEN 0 ELSE Head(segs).distance + SumDistance(Tail(segs))

RECURSIVE SumDuration(_)
SumDuration(segs) ==
    IF segs = <<>> THEN 0 ELSE Head(segs).duration + SumDuration(Tail(segs))

(* the closure append(status, start, end, note): miles_driven is read at the call *)
Emit(sched, status, start, end, note, miles) ==
    Append(sched, [status |-> status, start |-> start, end |-> end,
                   note |-> note, miles_since_start |-> miles])

(* f"Drive {x:.0f} mi" *)
DriveNote(miles) == <<"Drive mi", RoundHalfEven(miles, QuartersPerMile)>>

DriveToPickupNote(miles) == <<"Drive mi to pickup", RoundHalfEven(miles, QuartersPerMile)>>

EmptyResult == [schedule |-> <<>>, total_miles |-> 0, estimated_drive_hours |-> 0]

----------------------------------------------------------------------------
Init ==
    /\ features \in FeatureChoices
    /\ cycle_in \in CycleChoices
    /\ now \in NowChoices
    /\ pc = "start"
    /\ segments = <<>>
    /\ total_miles = 0
    /\ est_seconds = 0
    /\ t = 0
    /\ schedule = <<>>
    /\ miles_driven = 0
    /\ driving_today = 0
    /\ on_duty_today = 0
    /\ driving_since_break = 0
    /\ cycle_used = 0
    /\ miles_until_fuel = 0
    /\ remaining_miles = 0
    /\ result = EmptyResult
    /\ run = 1
    /\ first_result = EmptyResult

(* lines 22-24: no features, return the empty result *)
ReturnEmpty ==
    /\ pc = "start"
    /\ features = <<>>
    /\ result' = EmptyResult
    /\ pc' = "done"
    /\ UNCHANGED <<run, first_result, features, cycle_in, now, segments, total_miles, est_seconds, t,
                   schedule, miles_driven, driving_today, on_duty_today,
                   driving_since_break, cycle_used, miles_until_fuel,
                   remaining_miles>>

(* lines 26-59: totals, initialisation, pre-trip inspection *)
PreTrip ==
    /\ pc = "start"
    /\ features # <<>>
    /\ LET segs == Head(features) IN
       /\ segments' = segs
       /\ total_miles' = MetersToMiles(SumDistance(segs))
       /\ est_seconds' = SumDuration(segs)
    /\ schedule' = Emit(<<>>, "OnDutyNotDriving", now, now + Mins(PRETRIP_MIN),
                        <<"Pre-trip inspection">>, 0)
    /\ t' = now + Mins(PRETRIP_MIN)
    /\ miles_driven' = 0
    /\ driving_today' = 0
    /\ driving_since_break' = 0
    /\ on_duty_today' = 0 + Mins(PRETRIP_MIN)
    /\ cycle_used' = cycle_in + Mins(PRETRIP_MIN)
    /\ miles_until_fuel' = Miles(FUEL_RANGE_MILES)
    /\ pc' = "to_pickup"
    /\ UNCHANGED <<run, first_result, features, cycle_in, now, remaining_miles, result>>

(* lines 62-72: drive from the current location to the pickup *)
DriveToPickup ==
    /\ pc = "to_pickup"
    /\ segments # <<>>
    /\ LET first_leg_distance_mi == MetersToMiles(segments[1].distance)
           hours_to_pickup == DriveHours(first_leg_distance_mi)
       IN
       /\ schedule' = Emit(schedule, "Driving", t, t + hours_to_pickup,
                           DriveToPickupNote(first_leg_distance_mi), miles_driven)
       /\ t' = t + hours_to_pickup
       /\ miles_driven' = miles_driven + first_leg_distance_mi
       /\ driving_since_break' = driving_since_break + hours_to_pickup
       /\ driving_today' = driving_today + hours_to_pickup
       /\ on_duty_today' = on_duty_today + hours_to_pickup
       /\ cycle_used' = cycle_used + hours_to_pickup
    /\ pc' = "pickup"
    /\ UNCHANGED <<run, first_result, features, cycle_in, now, segments, total_miles, est_seconds,
                   miles_until_fuel, remaining_miles, result>>

(* lines 74-81: pickup cargo, then the distance that remains after the pickup *)
PickupCargo ==
    /\ \/ pc = "pickup"
       \/ pc = "to_pickup" /\ segments = <<>>
    /\ schedule' = Emit(schedule, "OnDutyNotDriving", t, t + Mins(PICKUP_MIN),
                        <<"Pickup cargo">>, miles_driven)
    /\ t' = t + Mins(PICKUP_MIN)
    /\ on_duty_today' = on_duty_today + Mins(PICKUP_MIN)
    /\ cycle_used' = cycle_used + Mins(PICKUP_MIN)
    /\ remaining_miles' =
         MetersToMiles(SumDistance(IF segments = <<>> THEN <<>> ELSE Tail(segments)))
    /\ pc' = "loop"
    /\ UNCHANGED <<run, first_result, features, cycle_in, now, segments, total_miles, est_seconds,
                   miles_driven, driving_today, driving_since_break,
                   miles_until_fuel, result>>

----------------------------------------------------------------------------
(* The driving simulation, lines 84-153: one action per loop iteration *)

(* a break that does not advance the clock *)
BreakEndStuck(clock) == clock

(* line 89: t += timedelta(minutes=30) *)
BreakEnd(clock) == clock + Mins(BREAK_MIN)

(* the break guard with > for >= *)
BreakDueStrict(since_break) == since_break > Hrs(BREAK_AFTER_HRS)

(* line 86: driving_since_break >= BREAK_AFTER_HRS *)
BreakDue(since_break) == since_break >= Hrs(BREAK_AFTER_HRS)

(* a break that is counted as on-duty time *)
MandatoryBreakOnDuty ==
    /\ pc = "loop"
    /\ remaining_miles > 0
    /\ BreakDue(driving_since_break)
    /\ schedule' = Emit(schedule, "OffDuty", t, t + Mins(BREAK_MIN),
                        <<"30 min mandatory break (after 8 hrs driving)">>,
                        miles_driven)
    /\ t' = BreakEnd(t)
    /\ driving_since_break' = 0
    /\ on_duty_today' = on_duty_today + Mins(BREAK_MIN)
    /\ cycle_used' = cycle_used + Mins(BREAK_MIN)
    /\ UNCHANGED <<run, first_result, features, cycle_in, now, pc, segments,
                   total_miles, est_seconds, miles_driven, driving_today,
                   miles_until_fuel, remaining_miles, result>>

(* lines 86-91: mandatory 30 min break after 8 hours of driving *)
MandatoryBreak ==
    /\ pc = "loop"
    /\ remaining_miles > 0
    /\ BreakDue(driving_since_break)
    /\ schedule' = Emit(schedule, "OffDuty", t, t + Mins(BREAK_MIN),
                        <<"30 min mandatory break (after 8 hrs driving)">>,
                        miles_driven)
    /\ t' = BreakEnd(t)
    /\ driving_since_break' = 0
    /\ UNCHANGED <<run, first_result, features, cycle_in, now, pc, segments, total_miles, est_seconds,
                   miles_driven, driving_today, on_duty_today, cycle_used,
                   miles_until_fuel, remaining_miles, result>>

(* the daily guard without its 11 hour half *)
DailyLimitOnDutyOnly(driving, on_duty) == on_duty >= Hrs(MAX_ON_DUTY_HRS)

(* line 94 *)
DailyLimitReached(driving, on_duty) ==
    driving >= Hrs(MAX_DRIVE_HRS) \/ on_duty >= Hrs(MAX_ON_DUTY_HRS)

(* a sleeper period of 7 hours whatever the on-duty time *)
SleeperHoursFlat(on_duty) == Hrs(SLEEPER_MAX_HRS)

(* line 96: s1 = min(7, MAX_ON_DUTY_HRS - on_duty_today) *)
SleeperHours(on_duty) == Min2(Hrs(SLEEPER_MAX_HRS), Hrs(MAX_ON_DUTY_HRS) - on_duty)

(* line 103: s2 = min(3, OFF_DUTY_RESET_HRS) *)
CompletionHours == Min2(Hrs(SPLIT_COMPLETION_HRS), Hrs(OFF_DUTY_RESET_HRS))

(* lines 94-118: the 11 hour / 14 hour rule *)
DailyLimit ==
    /\ pc = "loop"
    /\ remaining_miles > 0
    /\ ~BreakDue(driving_since_break)
    /\ DailyLimitReached(driving_today, on_duty_today)
    /\ IF remaining_miles > Miles(SPLIT_MILES)
       THEN LET s1 == SleeperHours(on_duty_today)
                s2 == CompletionHours
                sb_end == t + s1
                sched1 == Emit(schedule, "Sleeper", t, sb_end,
                               <<"Sleeper berth (split rest)">>, miles_driven)
            IN  IF remaining_miles > Miles(COMPLETION_MILES)
                THEN /\ schedule' = Emit(sched1, "OffDuty", sb_end, sb_end + s2,
                                         <<"Off-duty completion of split rest">>,
                                         miles_driven)
                     /\ t' = sb_end + s2
                     /\ cycle_used' = cycle_used + s1 + s2
                ELSE /\ schedule' = sched1
                     /\ t' = sb_end
                     /\ cycle_used' = cycle_used + s1
       ELSE /\ schedule' = Emit(schedule, "OffDuty", t, t + Hrs(OFF_DUTY_RESET_HRS),
                                <<"10 hr off-duty reset (11/14 hr rule)">>,
                                miles_driven)
            /\ t' = t + Hrs(OFF_DUTY_RESET_HRS)
            /\ cycle_used' = cycle_used + Hrs(OFF_DUTY_RESET_HRS)
    /\ driving_today' = 0
    /\ on_duty_today' = 0
    /\ driving_since_break' = 0
    /\ UNCHANGED <<run, first_result, features, cycle_in, now, pc, segments, total_miles, est_seconds,
                   miles_driven, miles_until_fuel, remaining_miles, result>>

(* a restart that leaves the cycle counter as it is *)
CycleKeptAfterRestart(cycle) == cycle

(* line 125: cycle_used = 0 *)
CycleAfterRestart(cycle) == 0

(* lines 121-126: the 70 hour / 8 day rule *)
CycleRestart ==
    /\ pc = "loop"
    /\ remaining_miles > 0
    /\ ~BreakDue(driving_since_break)
    /\ ~DailyLimitReached(driving_today, on_duty_today)
    /\ cycle_used >= Hrs(CYCLE_LIMIT_HRS)
    /\ schedule' = Emit(schedule, "OffDuty", t, t + Hrs(RESTART_OFF_DUTY_HRS),
                        <<"34 hr restart (70 hr / 8-day rule)">>, miles_driven)
    /\ t' = t + Hrs(RESTART_OFF_DUTY_HRS)
    /\ cycle_used' = CycleAfterRestart(cycle_used)
    /\ UNCHANGED <<run, first_result, features, cycle_in, now, pc, segments, total_miles, est_seconds,
                   miles_driven, driving_today, on_duty_today, driving_since_break,
                   miles_until_fuel, remaining_miles, result>>

(* a leg of a full hour whatever remains *)
LegMilesFullHour(remaining) == Miles(AVG_SPEED_MPH)

(* line 129: miles_this_leg = min(remaining_miles, AVG_SPEED_MPH) *)
LegMiles(remaining) == Min2(remaining, Miles(AVG_SPEED_MPH))

(* lines 130-132: the leg's hours, capped by the 11 h and 14 h allowances *)
LegHours(miles, driving, on_duty) ==
    Min3(DriveHours(miles), Hrs(MAX_DRIVE_HRS) - driving,
         Hrs(MAX_ON_DUTY_HRS) - on_duty)

(* a full hour of miles taken off whatever the leg drove *)
RemainingLessFullHour(remaining, miles) == remaining - Miles(AVG_SPEED_MPH)

(* line 138: remaining_miles -= miles_this_leg *)
RemainingAfterLeg(remaining, miles) == remaining - miles

(* miles_driven = miles_this_leg, for += *)
MilesSetToLeg(driven, miles) == miles

(* line 139: miles_driven += miles_this_leg *)
MilesAfterLeg(driven, miles) == driven + miles

(* the fuel check without its remaining_miles > 0 *)
FuelStopOnEmpty(fuel, remaining) == fuel <= 0

(* line 147 *)
FuelStopDue(fuel, remaining) == fuel <= 0 /\ remaining > 0

(* a refill that carries the overdrawn miles over *)
FuelCarriedOver(fuel) == fuel + Miles(FUEL_RANGE_MILES)

(* line 153: miles_until_fuel = FUEL_RANGE_MILES *)
FuelAfterStop(fuel) == Miles(FUEL_RANGE_MILES)

(* lines 129-153: a driving leg, and the fuel stop that may follow it *)
DriveLeg ==
    /\ pc = "loop"
    /\ remaining_miles > 0
    /\ ~BreakDue(driving_since_break)
    /\ ~DailyLimitReached(driving_today, on_duty_today)
    /\ ~(cycle_used >= Hrs(CYCLE_LIMIT_HRS))
    /\ LET miles_this_leg == LegMiles(remaining_miles)
           hours_this_leg == LegHours(miles_this_leg, driving_today, on_duty_today)
           drive_end == t + hours_this_leg
           sched1 == Emit(schedule, "Driving", t, drive_end,
                          DriveNote(miles_this_leg), miles_driven)
           remaining1 == RemainingAfterLeg(remaining_miles, miles_this_leg)
           driven1 == MilesAfterLeg(miles_driven, miles_this_leg)
           fuel1 == miles_until_fuel - miles_this_leg
       IN
       /\ remaining_miles' = remaining1
       /\ miles_driven' = driven1
       /\ driving_today' = driving_today + hours_this_leg
       /\ driving_since_break' = driving_since_break + hours_this_leg
       /\ IF FuelStopDue(fuel1, remaining1)
          THEN /\ schedule' = Emit(sched1, "OnDutyNotDriving", drive_end,
                                   drive_end + Mins(FUEL_STOP_MIN),
                                   <<"Fuel stop">>, driven1)
               /\ t' = drive_end + Mins(FUEL_STOP_MIN)
               /\ on_duty_today' = on_duty_today + hours_this_leg + Mins(FUEL_STOP_MIN)
               /\ cycle_used' = cycle_used + hours_this_leg + Mins(FUEL_STOP_MIN)
               /\ miles_until_fuel' = FuelAfterStop(fuel1)
          ELSE /\ schedule' = sched1
               /\ t' = drive_end
               /\ on_duty_today' = on_duty_today + hours_this_leg
               /\ cycle_used' = cycle_used + hours_this_leg
               /\ miles_until_fuel' = fuel1
    /\ UNCHANGED <<run, first_result, features, cycle_in, now, pc, segments, total_miles, est_seconds,
                   result>>

(* line 157: t += timedelta(minutes=DROPOFF_MIN) *)
UnloadEnd(clock) == clock + Mins(DROPOFF_MIN)

(* lines 155-165: unload, post-trip rest, the returned dict *)
DropoffAndReturn ==
    /\ pc = "loop"
    /\ ~(remaining_miles > 0)
    /\ LET sched1 == Emit(schedule, "OnDutyNotDriving", t, t + Mins(DROPOFF_MIN),
                          <<"Unload cargo">>, miles_driven)
           t1 == UnloadEnd(t)
           sched2 == Emit(sched1, "OffDuty", t1, t1 + Hrs(OFF_DUTY_RESET_HRS),
                          <<"10 hr rest after trip">>, miles_driven)
       IN
       /\ schedule' = sched2
       /\ t' = t1
       /\ result' = [schedule |-> sched2,
                     total_miles |-> RoundHalfEven(100 * total_miles, QuartersPerMile),
                     estimated_drive_hours |-> RoundHalfEven(est_seconds, 36)]
    /\ pc' = "done"
    /\ UNCHANGED <<run, first_result, features, cycle_in, now, segments, total_miles, est_seconds,
                   miles_driven, driving_today, on_duty_today, driving_since_break,
                   cycle_used, miles_until_fuel, remaining_miles>>

Next ==
    \/ ReturnEmpty
    \/ PreTrip
    \/ DriveToPickup
    \/ PickupCargo
    \/ MandatoryBreak
    \/ DailyLimit
    \/ CycleRestart
    \/ DriveLeg
    \/ DropoffAndReturn

Spec == Init /\ [][Next]_vars

(* the call runs to its return: no step of the function is skipped forever *)
FairSpec == Spec /\ WF_vars(Next)

(* views.py line 42: plan_trip calls the function once per request; a     *)
(* second request with the same route and cycle hours runs it again, at    *)
(* the same or a later utcnow()                                            *)
CallAgain ==
    /\ pc = "done"
    /\ run = 1
    /\ run' = 2
    /\ first_result' = result
    /\ now' \in { n \in NowChoices : n >= now }
    /\ pc' = "start"
    /\ segments' = <<>>
    /\ total_miles' = 0
    /\ est_seconds' = 0
    /\ t' = 0
    /\ schedule' = <<>>
    /\ miles_driven' = 0
    /\ driving_today' = 0
    /\ on_duty_today' = 0
    /\ driving_since_break' = 0
    /\ cycle_used' = 0
    /\ miles_until_fuel' = 0
    /\ remaining_miles' = 0
    /\ result' = EmptyResult
    /\ UNCHANGED <<features, cycle_in>>

RepeatNext == Next \/ CallAgain

RepeatSpec == Init /\ [][RepeatNext]_vars

----------------------------------------------------------------------------
(* Vocabulary of the properties *)

Periods == DOMAIN schedule

Last(sched) == sched[Len(sched)]

Duration(p) == p.end - p.start

(* the periods a step appends *)
Emitted == SubSeq(schedule', Len(schedule) + 1, Len(schedule'))

EmitsDriving == \E i \in DOMAIN Emitted : Emitted[i].status = "Driving"

(* the route has no segment at all *)
ZeroSegments == features = <<>> \/ Head(features) = <<>>

(* miles of the route not driven yet *)
MilesToDrive ==
    IF pc = "loop" THEN remaining_miles
    ELSE IF pc \in {"to_pickup", "pickup"}
         THEN MetersToMiles(SumDistance(segments)) - miles_driven
         ELSE 0

HasNote(sched, note) == \E i \in DOMAIN sched : sched[i].note = note

----------------------------------------------------------------------------
(* C1: in the schedule built so far and in the returned one, every period  *)
(* starts where the period before it ends: no gap and no overlap.          *)
C1_NoGapNoOverlap ==
    /\ \A i \in 1..(Len(schedule) - 1) : schedule[i].end = schedule[i + 1].start
    /\ \A i \in 1..(Len(result.schedule) - 1) :
          result.schedule[i].end = result.schedule[i + 1].start

(* a returned schedule with a break, a split rest, a fuel stop and a restart *)
C1_Witness ==
    /\ pc = "done"
    /\ HasNote(result.schedule, <<"30 min mandatory break (after 8 hrs driving)">>)
    /\ HasNote(result.schedule, <<"Off-duty completion of split rest">>)
    /\ HasNote(result.schedule, <<"Fuel stop">>)
    /\ HasNote(result.schedule, <<"34 hr restart (70 hr / 8-day rule)">>)

(* C2: no emitted period ends before it starts (and so the clock, which is *)
(* set to each period's end, never moves backwards).                       *)
C2_EndNotBeforeStart == \A i \in Periods : schedule[i].end >= schedule[i].start

(* C3: right after a Driving period, driving_today is at most 11 h and     *)
(* on_duty_today at most 14 h.                                             *)
C3_DrivingWithinDailyLimits ==
    (schedule # <<>> /\ Last(schedule).status = "Driving")
        => /\ driving_today <= Hrs(MAX_DRIVE_HRS)
           /\ on_duty_today <= Hrs(MAX_ON_DUTY_HRS)

(* C4: driving_since_break never exceeds 8 h.                              *)
C4_ContinuousDrivingWithin8h == driving_since_break <= Hrs(BREAK_AFTER_HRS)

(* C5: the call returns.  Each iteration of the driving loop either drives *)
(* a leg, and then remaining_miles strictly decreases, or fires a rest     *)
(* rule, and then the guards that hold, weighed in evaluation order,       *)
(* strictly decrease: rest rules cannot follow each other forever.         *)
RestRank ==
    (IF BreakDue(driving_since_break) THEN 4 ELSE 0)
    + (IF DailyLimitReached(driving_today, on_duty_today) THEN 2 ELSE 0)
    + (IF cycle_used >= Hrs(CYCLE_LIMIT_HRS) THEN 1 ELSE 0)

LoopProgress ==
    (pc = "loop" /\ pc' = "loop")
        => \/ remaining_miles' < remaining_miles /\ remaining_miles' >= 0
           \/ remaining_miles' = remaining_miles /\ RestRank' < RestRank

ReturnedAfterTrip ==
    /\ pc = "done"
    /\ remaining_miles = 0
    /\ (features # <<>> =>
          /\ Len(result.schedule) >= 2
          /\ result.schedule[Len(result.schedule) - 1].note = <<"Unload cargo">>
          /\ Last(result.schedule).note = <<"10 hr rest after trip">>)

C5_LoopTerminates == [][LoopProgress]_vars /\ <>ReturnedAfterTrip

(* a returned trip in which all three rest rules fired one after the other *)
C5_Witness ==
    /\ pc = "done"
    /\ \E i \in 1..(Len(result.schedule) - 3) :
          /\ result.schedule[i].note = <<"30 min mandatory break (after 8 hrs driving)">>
          /\ result.schedule[i + 1].status \in {"Sleeper", "OffDuty"}
          /\ \E j \in (i + 2)..(i + 3) :
                /\ result.schedule[j].note = <<"34 hr restart (70 hr / 8-day rule)">>
                /\ result.schedule[j + 1].status = "Driving"

(* C6: from a loop state with cycle_used >= 70 h and miles remaining, a    *)
(* step emits no Driving period, and cycle_used stays >= 70 h unless the   *)
(* step emits the 34 hour restart, after which cycle_used is 0.            *)
IsRestart(p) ==
    /\ p.status = "OffDuty"
    /\ Duration(p) = Hrs(RESTART_OFF_DUTY_HRS)
    /\ p.note = <<"34 hr restart (70 hr / 8-day rule)">>

C6_NoDrivingBeforeRestart ==
    [][(pc = "loop" /\ remaining_miles > 0 /\ cycle_used >= Hrs(CYCLE_LIMIT_HRS))
         => /\ ~EmitsDriving
            /\ \/ cycle_used' >= Hrs(CYCLE_LIMIT_HRS)
               \/ /\ Len(Emitted) = 1
                  /\ IsRestart(Emitted[1])
                  /\ cycle_used' = 0]_vars

(* C7: a route without segments returns the empty result, and no period is *)
(* emitted for it.                                                         *)
C7_ZeroSegmentsEmptyResult ==
    ZeroSegments => (schedule = <<>> /\ (pc = "done" => result = EmptyResult))

(* C8: miles_since_start never decreases along the schedule.               *)
C8_MilesNonDecreasing ==
    /\ \A i \in 1..(Len(schedule) - 1) :
          schedule[i].miles_since_start <= schedule[i + 1].miles_since_start
    /\ \A i \in 1..(Len(result.schedule) - 1) :
          result.schedule[i].miles_since_start
              <= result.schedule[i + 1].miles_since_start

(* a returned schedule whose annotation grows at a pickup leg and at loop legs *)
C8_Witness ==
    /\ pc = "done"
    /\ Len(result.schedule) >= 6
    /\ result.schedule[2].miles_since_start < result.schedule[3].miles_since_start
    /\ \E i \in 4..(Len(result.schedule) - 1) :
          /\ result.schedule[i].status = "Driving"
          /\ result.schedule[i + 1].status = "Driving"
          /\ result.schedule[i].miles_since_start
                < result.schedule[i + 1].miles_since_start

(* C9: from a state with driving_since_break >= 8 h and miles still to     *)
(* drive, a step emits no Driving period, and driving_since_break stays    *)
(* >= 8 h with miles still to drive unless the step emits exactly the      *)
(* 30 minute OffDuty break, after which driving_since_break is 0.          *)
IsBreak(p) ==
    /\ p.status = "OffDuty"
    /\ Duration(p) = Mins(BREAK_MIN)
    /\ p.note = <<"30 min mandatory break (after 8 hrs driving)">>

C9_BreakBeforeDriving ==
    [][(driving_since_break >= Hrs(BREAK_AFTER_HRS) /\ MilesToDrive > 0)
         => /\ ~EmitsDriving
            /\ \/ driving_since_break' >= Hrs(BREAK_AFTER_HRS) /\ MilesToDrive' > 0
               \/ /\ Len(Emitted) = 1
                  /\ IsBreak(Emitted[1])
                  /\ driving_since_break' = 0]_vars

(* a break taken after exactly 8 h of loop driving, and driving resumed *)
C9_Witness ==
    /\ pc = "loop"
    /\ Len(schedule) >= 3
    /\ Last(schedule).status = "Driving"
    /\ IsBreak(schedule[Len(schedule) - 1])
    /\ schedule[Len(schedule) - 2].status = "Driving"
    /\ driving_today = Hrs(BREAK_AFTER_HRS) + Duration(Last(schedule))

(* C10: a returned non-empty schedule starts with the 30 minute pre-trip   *)
(* inspection and ends with the 60 minute unload and the 10 hour rest; the *)
(* period before the unload is a Driving period or the pickup; the unload  *)
(* is emitted only with remaining_miles = 0, a fuel stop, break, daily     *)
(* rest or restart only with miles remaining, and nothing after the rest.  *)
IsPreTrip(p) ==
    /\ p.status = "OnDutyNotDriving"
    /\ Duration(p) = Mins(PRETRIP_MIN)
    /\ p.note = <<"Pre-trip inspection">>

IsUnload(p) ==
    /\ p.status = "OnDutyNotDriving"
    /\ Duration(p) = Mins(DROPOFF_MIN)
    /\ p.note = <<"Unload cargo">>

IsPostTripRest(p) ==
    /\ p.status = "OffDuty"
    /\ Duration(p) = Hrs(OFF_DUTY_RESET_HRS)
    /\ p.note = <<"10 hr rest after trip">>

ReturnedShape ==
    (pc = "done" /\ result.schedule # <<>>) =>
        LET s == result.schedule
            n == Len(s)
        IN  /\ s = schedule
            /\ n >= 4
            /\ IsPreTrip(s[1])
            /\ IsUnload(s[n - 1])
            /\ IsPostTripRest(s[n])
            /\ \A i \in 1..(n - 2) : ~IsUnload(s[i]) /\ ~IsPostTripRest(s[i])
            /\ s[n - 2].status = "Driving" \/ s[n - 2].note = <<"Pickup cargo">>
            /\ remaining_miles = 0

EmissionOrder ==
    /\ pc = "done" => Emitted = <<>>
    /\ \A i \in DOMAIN Emitted :
          /\ IsUnload(Emitted[i]) => remaining_miles = 0 /\ pc' = "done"
          /\ (pc = "loop" /\ Emitted[i].status # "Driving" /\ pc' # "done")
                => remaining_miles' > 0

C10_StartsAndEndsProperly == []ReturnedShape /\ [][EmissionOrder]_vars

(* a returned trip whose last leg left the tank empty with no mile remaining *)
C10_Witness ==
    /\ pc = "done"
    /\ result.schedule # <<>>
    /\ miles_until_fuel <= 0
    /\ result.schedule[Len(result.schedule) - 2].status = "Driving"

(* C11: every emitted period has one of the four duty statuses Driving,    *)
(* OnDutyNotDriving, OffDuty, SleeperBerth.                                *)
DutyStatuses == {"Driving", "OnDutyNotDriving", "OffDuty", "SleeperBerth"}

C11_StatusIsDutyStatus == \A i \in Periods : schedule[i].status \in DutyStatuses

(* C12: a trip with a pickup leg and at most 55 miles after the pickup,    *)
(* that reaches the loop with driving under 8 h, on-duty under 14 h and    *)
(* cycle_used under 70 h, returns exactly six periods: pre-trip, drive to  *)
(* pickup, pickup, one Driving period, unload, post-trip rest.             *)
PickupLegHours == DriveHours(MetersToMiles(Head(features)[1].distance))

MilesAfterPickup == MetersToMiles(SumDistance(Tail(Head(features))))

UnderLimitsAtPickup ==
    /\ PickupLegHours < Hrs(BREAK_AFTER_HRS)
    /\ Mins(PRETRIP_MIN) + PickupLegHours + Mins(PICKUP_MIN) < Hrs(MAX_ON_DUTY_HRS)
    /\ cycle_in + Mins(PRETRIP_MIN) + PickupLegHours + Mins(PICKUP_MIN)
          < Hrs(CYCLE_LIMIT_HRS)

SixPeriods(s) ==
    /\ Len(s) = 6
    /\ IsPreTrip(s[1])
    /\ s[2].status = "Driving" /\ Duration(s[2]) = PickupLegHours
    /\ s[3].status = "OnDutyNotDriving" /\ Duration(s[3]) = Mins(PICKUP_MIN)
    /\ s[3].note = <<"Pickup cargo">>
    /\ s[4].status = "Driving" /\ Duration(s[4]) = DriveHours(MilesAfterPickup)
    /\ IsUnload(s[5])
    /\ IsPostTripRest(s[6])

(* the claim as made: any remaining distance of at most 55 miles, also none *)
C12_ShortTripSixPeriods_AsClaimed ==
    (/\ pc = "done"
     /\ ~ZeroSegments
     /\ MilesAfterPickup <= Miles(AVG_SPEED_MPH)
     /\ UnderLimitsAtPickup)
        => SixPeriods(result.schedule)

(* C12 as amended: the remaining distance is more than 0 and at most 55    *)
(* miles.                                                                  *)
C12_ShortTripSixPeriods ==
    (/\ pc = "done"
     /\ ~ZeroSegments
     /\ MilesAfterPickup > 0
     /\ MilesAfterPickup <= Miles(AVG_SPEED_MPH)
     /\ UnderLimitsAtPickup)
        => SixPeriods(result.schedule)

(* a returned short trip: a real pickup leg, 40 miles after it *)
C12_Witness ==
    /\ pc = "done"
    /\ ~ZeroSegments
    /\ PickupLegHours > 0
    /\ MilesAfterPickup = Miles(40)
    /\ UnderLimitsAtPickup
    /\ Len(result.schedule) = 6

(* C13: a second call with the same route and the same cycle hours returns *)
(* what the first call returned, timestamps included.                      *)
C13_SameInputsSameResult == (run = 2 /\ pc = "done") => result = first_result

(* C14: in a loop iteration the first rule whose guard holds fires, in the *)
(* order break, daily limit, cycle limit, drive; a loop Driving period is  *)
(* emitted only with driving_since_break < 8 h, driving_today < 11 h,      *)
(* on_duty_today < 14 h and cycle_used < 70 h.                             *)
LoopIteration == pc = "loop" /\ remaining_miles > 0

IsDailyRest(p) ==
    \/ p.note = <<"Sleeper berth (split rest)">>
    \/ p.note = <<"Off-duty completion of split rest">>
    \/ p.note = <<"10 hr off-duty reset (11/14 hr rule)">>

FirstMatchingRuleFires ==
    LoopIteration =>
        LET break_due == driving_since_break >= Hrs(BREAK_AFTER_HRS)
            daily_due == \/ driving_today >= Hrs(MAX_DRIVE_HRS)
                         \/ on_duty_today >= Hrs(MAX_ON_DUTY_HRS)
            cycle_due == cycle_used >= Hrs(CYCLE_LIMIT_HRS)
        IN  /\ Len(Emitted) >= 1
            /\ break_due => Len(Emitted) = 1 /\ IsBreak(Emitted[1])
            /\ (~break_due /\ daily_due)
                  => \A i \in DOMAIN Emitted : IsDailyRest(Emitted[i])
            /\ (~break_due /\ ~daily_due /\ cycle_due)
                  => Len(Emitted) = 1 /\ IsRestart(Emitted[1])
            /\ (~break_due /\ ~daily_due /\ ~cycle_due)
                  => Emitted[1].status = "Driving"
            /\ EmitsDriving => ~break_due /\ ~daily_due /\ ~cycle_due

C14_RulePriority == [][FirstMatchingRuleFires]_vars

(* all three rest guards held and the break fired first *)
C14_Witness ==
    /\ pc = "loop"
    /\ remaining_miles > 0
    /\ IsBreak(Last(schedule))
    /\ driving_today >= Hrs(MAX_DRIVE_HRS)
    /\ cycle_used >= Hrs(CYCLE_LIMIT_HRS)

(* C15: when the daily-limit rule fires it emits a single 10 hour OffDuty  *)
(* reset if at most 50 miles remain, a single sleeper period of            *)
(* min(7 h, 14 h - on_duty_today) if more than 50 and at most 100 remain,  *)
(* and that sleeper period followed by a 3 hour OffDuty period if more     *)
(* than 100 remain; cycle_used grows by the total duration emitted and the *)
(* three short-term counters are 0 afterwards.                             *)
DailyRuleFires ==
    /\ LoopIteration
    /\ driving_since_break < Hrs(BREAK_AFTER_HRS)
    /\ \/ driving_today >= Hrs(MAX_DRIVE_HRS)
       \/ on_duty_today >= Hrs(MAX_ON_DUTY_HRS)

RECURSIVE TotalDuration(_)
TotalDuration(ps) ==
    IF ps = <<>> THEN 0 ELSE Duration(Head(ps)) + TotalDuration(Tail(ps))

IsSleeper(p, hours) ==
    /\ p.note = <<"Sleeper berth (split rest)">>
    /\ Duration(p) = hours

DailyRuleEffect ==
    DailyRuleFires =>
        LET s1 == IF Hrs(7) <= Hrs(14) - on_duty_today
                  THEN Hrs(7) ELSE Hrs(14) - on_duty_today
        IN  /\ remaining_miles <= Miles(50)
                  => /\ Len(Emitted) = 1
                     /\ Emitted[1].status = "OffDuty"
                     /\ Duration(Emitted[1]) = Hrs(10)
            /\ (remaining_miles > Miles(50) /\ remaining_miles <= Miles(100))
                  => /\ Len(Emitted) = 1
                     /\ IsSleeper(Emitted[1], s1)
            /\ remaining_miles > Miles(100)
                  => /\ Len(Emitted) = 2
                     /\ IsSleeper(Emitted[1], s1)
                     /\ Emitted[2].status = "OffDuty"
                     /\ Duration(Emitted[2]) = Hrs(3)
            /\ cycle_used' = cycle_used + TotalDuration(Emitted)
            /\ driving_today' = 0
            /\ on_duty_today' = 0
            /\ driving_since_break' = 0

C15_DailyRuleEmission == [][DailyRuleEffect]_vars

(* the rule has just fired with more than 100 miles left, after 11 h of driving *)
C15_Witness ==
    /\ pc = "loop"
    /\ Len(schedule) >= 2
    /\ remaining_miles > Miles(100)
    /\ Last(schedule).note = <<"Off-duty completion of split rest">>
    /\ schedule[Len(schedule) - 1].note = <<"Sleeper berth (split rest)">>
    /\ Duration(schedule[Len(schedule) - 1]) > 0
    /\ Duration(schedule[Len(schedule) - 1]) < Hrs(7)
    /\ driving_today = 0

(* C16: the break, the daily rest and the 34 hour restart leave            *)
(* remaining_miles, miles_driven and miles_until_fuel unchanged; the break *)
(* also leaves driving_today, on_duty_today and cycle_used unchanged, and  *)
(* the restart leaves driving_today, on_duty_today and                     *)
(* driving_since_break unchanged.                                          *)
RestRuleFrame ==
    (LoopIteration /\ Emitted # <<>>) =>
        /\ (\/ Emitted[1].note = <<"30 min mandatory break (after 8 hrs driving)">>
            \/ IsDailyRest(Emitted[1])
            \/ Emitted[1].note = <<"34 hr restart (70 hr / 8-day rule)">>)
              => UNCHANGED <<remaining_miles, miles_driven, miles_until_fuel>>
        /\ Emitted[1].note = <<"30 min mandatory break (after 8 hrs driving)">>
              => UNCHANGED <<driving_today, on_duty_today, cycle_used>>
        /\ Emitted[1].note = <<"34 hr restart (70 hr / 8-day rule)">>
              => UNCHANGED <<driving_today, on_duty_today, driving_since_break>>

C16_RestRulesConsumeNoDistance == [][RestRuleFrame]_vars

(* a break has just been taken in the middle of a driving day *)
C16_Witness ==
    /\ pc = "loop"
    /\ schedule # <<>>
    /\ Last(schedule).note = <<"30 min mandatory break (after 8 hrs driving)">>
    /\ driving_today > 0
    /\ on_duty_today > driving_today
    /\ cycle_used > 0
    /\ miles_until_fuel < Miles(FUEL_RANGE_MILES)
    /\ remaining_miles > 0

(* C17: a 45 minute OnDutyNotDriving fuel stop follows a loop Driving      *)
(* period exactly when that leg left miles_until_fuel <= 0 with            *)
(* remaining_miles > 0; it adds 0.75 h to on_duty_today and cycle_used and *)
(* resets miles_until_fuel to 1000, so that every loop iteration starts    *)
(* with 0 < miles_until_fuel <= 1000.                                      *)
IsFuelStop(p) ==
    /\ p.status = "OnDutyNotDriving"
    /\ Duration(p) = Mins(45)
    /\ p.note = <<"Fuel stop">>

FuelAtIterationStart ==
    LoopIteration => (miles_until_fuel > 0 /\ miles_until_fuel <= Miles(1000))

FuelStopRule ==
    /\ \A i \in DOMAIN Emitted :
          Emitted[i].note = <<"Fuel stop">>
              => i = 2 /\ Emitted[1].status = "Driving" /\ pc = "loop"
    /\ (pc = "loop" /\ EmitsDriving) =>
          LET leg_miles == remaining_miles - remaining_miles'
              leg_hours == Duration(Emitted[1])
              due == miles_until_fuel - leg_miles <= 0 /\ remaining_miles' > 0
          IN  IF due
              THEN /\ Len(Emitted) = 2
                   /\ IsFuelStop(Emitted[2])
                   /\ on_duty_today' = on_duty_today + leg_hours + Mins(45)
                   /\ cycle_used' = cycle_used + leg_hours + Mins(45)
                   /\ miles_until_fuel' = Miles(1000)
              ELSE /\ Len(Emitted) = 1
                   /\ on_duty_today' = on_duty_today + leg_hours
                   /\ cycle_used' = cycle_used + leg_hours
                   /\ miles_until_fuel' = miles_until_fuel - leg_miles

C17_FuelStop == []FuelAtIterationStart /\ [][FuelStopRule]_vars

(* the tank was overdrawn by a leg and a fuel stop has just been emitted *)
C17_Witness ==
    /\ pc = "loop"
    /\ Len(schedule) >= 2
    /\ IsFuelStop(Last(schedule))
    /\ schedule[Len(schedule) - 1].status = "Driving"
    /\ miles_until_fuel = Miles(1000)
    /\ miles_driven > Miles(1000)
    /\ remaining_miles > 0

(* C18: when the daily-limit rule fires, the rest periods it emits total   *)
(* at least 10 hours.                                                      *)
C18_DailyRestAtLeast10h ==
    [][DailyRuleFires => TotalDuration(Emitted) >= Hrs(10)]_vars

(* C19: from the pickup on, miles_driven + remaining_miles is the total of *)
(* the route's segments, remaining_miles is never negative and never       *)
(* grows, and the last two periods record the route's total miles.         *)
RouteMiles == MetersToMiles(SumDistance(Head(features)))

DistanceConserved ==
    (features # <<>> /\ pc \in {"loop", "done"}) =>
        /\ miles_driven + remaining_miles = RouteMiles
        /\ remaining_miles >= 0
        /\ pc = "done" =>
              /\ Last(result.schedule).miles_since_start = RouteMiles
              /\ result.schedule[Len(result.schedule) - 1].miles_since_start
                    = RouteMiles

RemainingNeverGrows == pc = "loop" => remaining_miles' <= remaining_miles

C19_DistanceConserved == []DistanceConserved /\ [][RemainingNeverGrows]_vars

(* a returned trip with a pickup leg, full legs and a last partial leg *)
C19_Witness ==
    /\ pc = "done"
    /\ features # <<>>
    /\ Len(result.schedule) >= 8
    /\ result.schedule[3].miles_since_start > 0
    /\ RouteMiles > result.schedule[3].miles_since_start + Miles(AVG_SPEED_MPH)
    /\ (RouteMiles - result.schedule[3].miles_since_start) % Miles(AVG_SPEED_MPH) # 0
    /\ miles_driven = RouteMiles

(* C20: the miles a Driving period adds to miles_driven (and, in the loop, *)
(* takes off remaining_miles) are 55 mph times the period's duration.      *)
DrivingAt55Mph ==
    EmitsDriving =>
        /\ DriveHours(miles_driven' - miles_driven) = Duration(Emitted[1])
        /\ pc = "loop" =>
              DriveHours(remaining_miles - remaining_miles') = Duration(Emitted[1])

C20_DrivingAt55Mph == [][DrivingAt55Mph]_vars

====
